---- MODULE Spec2Model ----
(***************************************************************************)
(* Model of app/octopus_to_influxdb.py: the paginated retrieval of         *)
(* readings, the per-reading tariff resolution and cost computation of     *)
(* store_series, and the control flow of cmd.                              *)
(*                                                                         *)
(* Time is counted in half-hour slots since 00:00 UTC of day 0.  A         *)
(* timestamp string is a record [utc |-> instant, off |-> offset of the    *)
(* textual form]: "2023-01-02T00:00:00Z" and "2023-01-02T01:00:00+01:00"   *)
(* name the same instant but are different strings.  A clock time "HH:MM"  *)
(* is its slot number in the day (0 = "00:00", 1 = "00:30", 47 = "23:30"). *)
(* Zones are fixed-offset zones; daylight-saving transitions are not       *)
(* modelled.                                                               *)
(***************************************************************************)
EXTENDS Integers, Sequences, FiniteSets, TLC

VARIABLES
    series,        \* store_series: the series argument
    rate_data,     \* store_series: the rate_data argument (catalog)
    metrics,       \* store_series: the readings argument
    outcome,       \* store_series: "idle", "written" or the exception raised
    written,       \* store_series: the batch handed to connection.write_points
    srv,           \* retrieve_paginated_data: the provider's pages, by page id
    page,          \* retrieve_paginated_data: the page argument of the current call
    frames,        \* retrieve_paginated_data: `results` of each call on the stack
    requests,      \* retrieve_paginated_data: page ids requested, in order
    returned,      \* retrieve_paginated_data: value returned by the outermost call
    rpc,           \* retrieve_paginated_data: "call", "returned" or the exception
    config,        \* cmd: the configuration file
    pc,            \* cmd: position in cmd
    catalog,       \* cmd: fetched rate values and the rate_data built from them
    fetch,         \* cmd: the retrieve_paginated_data call in progress
    e_consumption, \* cmd: readings retrieved for electricity
    g_consumption, \* cmd: readings retrieved for gas
    log            \* cmd: requests issued, batches written and the exit, in order

series_vars == <<series, rate_data, metrics, outcome, written>>
pages_vars  == <<srv, page, frames, requests, returned, rpc>>
cmd_vars    == <<config, pc, catalog, fetch, e_consumption, g_consumption, log>>
vars == <<series, rate_data, metrics, outcome, written,
          srv, page, frames, requests, returned, rpc,
          config, pc, catalog, fetch, e_consumption, g_consumption, log>>

---------------------------------------------------------------------------
(* Bounds and data domains *)

SlotsPerDay == 48     \* half-hour intervals in a day
Margin == 2           \* readings lie within Margin slots of a UTC midnight
MaxReadings == 1      \* readings per store_series call
MaxPages == 3         \* pages held by the provider
MaxDepth == 2         \* nested calls the interpreter's recursion limit admits
                      \* (1000 by default in CPython, scaled down with MaxPages)

Instants == (SlotsPerDay - Margin)..(SlotsPerDay + Margin)
Offsets == {0, 2}                         \* textual offsets: "Z", "+01:00"
Timestamps == [utc : Instants, off : Offsets]
Consumptions == {3, 10}
Readings == [interval_start : Timestamps, consumption : Consumptions]

ClockTimes == {0, 1, SlotsPerDay - 1}     \* "00:00", "00:30", "23:30"
Zones == {"", "UTC", "Etc/GMT-1", "Etc/GMT+1"}
StandingCharges == {0, 48}                \* multiples of 48, so /48 is exact
AccountName == "home"
None == << >>
Some(v) == <<v>>

SeqsUpTo(S, n) == UNION {[1..k -> S] : k \in 0..n}

---------------------------------------------------------------------------
(* maya: parsing, formatting, zones and intervals *)

\* maya.parse(s): the instant a timestamp string names (its offset is dropped)
Parse(s) == s.utc

\* MayaDT.iso8601(): the UTC text of an instant
Iso8601(at) == [utc |-> at, off |-> 0]

\* offset of a zone from UTC, in slots
ZoneOffset(zone) ==
    CASE zone = "UTC" -> 0
      [] zone = "Etc/GMT-1" -> 2
      [] zone = "Etc/GMT+1" -> 0 - 2

\* MayaDT.datetime(to_timezone=zone).strftime('%Y-%m-%d'): the local calendar day
LocalDate(at, zone) == (at + ZoneOffset(zone)) \div SlotsPerDay

\* MayaDT.datetime().strftime('%H:%M'): the clock time in UTC
UtcClock(at) == at % SlotsPerDay

\* maya.when('<date>T<clock>', timezone=zone): local date and clock to instant
When(date, clock, zone) == date * SlotsPerDay + clock - ZoneOffset(zone)

\* maya.MayaInterval(start, end) raises ValueError when it ends before it starts
IntervalRaises(start, end) == start > end

\* dt in MayaInterval(start, end)
IntervalContains(start, end, dt) == start <= dt /\ dt < end

---------------------------------------------------------------------------
(* retrieve_paginated_data *)

\* the value the outermost call returns once the innermost call returned
\* `value`: every pending call does results += <value of the call it made>
RECURSIVE Unwind(_, _)
Unwind(stack, value) ==
    IF stack = << >> THEN value
    ELSE Unwind(SubSeq(stack, 1, Len(stack) - 1), stack[Len(stack)] \o value)

\* one call's body with raise_for_status() left out
PageStepUnchecked(stack, resp) ==
    IF resp.next # 0
    THEN [kind |-> "recurse", stack |-> Append(stack, resp.results), page |-> resp.next]
    ELSE [kind |-> "return", value |-> Unwind(stack, resp.results)]

\* one call's body given the response to its request: raise_for_status raises,
\* or a next link leads to the recursive call (RecursionError when the stack
\* is full), or the call chain returns
PageStep(stack, resp) ==
    IF resp.status # 200
    THEN [kind |-> "raise", exception |-> "HTTPError"]
    ELSE IF resp.next # 0
    THEN IF Len(stack) + 1 >= MaxDepth
         THEN [kind |-> "raise", exception |-> "RecursionError"]
         ELSE [kind |-> "recurse", stack |-> Append(stack, resp.results), page |-> resp.next]
    ELSE [kind |-> "return", value |-> Unwind(stack, resp.results)]

\* the page the provider serves for a page parameter (none given: the first)
Served(param) == IF param = 0 THEN 1 ELSE param

\* one call of retrieve_paginated_data against the provider srv
retrieve_paginated_data ==
    /\ rpc = "call"
    /\ requests' = Append(requests, page)
    /\ LET step == PageStep(frames, srv[Served(page)])
       IN CASE step.kind = "raise" ->
                 /\ rpc' = step.exception
                 /\ UNCHANGED <<page, frames, returned>>
            [] step.kind = "recurse" ->
                 /\ frames' = step.stack
                 /\ page' = step.page
                 /\ UNCHANGED <<rpc, returned>>
            [] step.kind = "return" ->
                 /\ returned' = step.value
                 /\ rpc' = "returned"
                 /\ UNCHANGED <<page, frames>>
    /\ UNCHANGED srv
    /\ UNCHANGED <<series_vars, cmd_vars>>

---------------------------------------------------------------------------
(* store_series *)

\* dict.get(key, default)
Get(d, key, default) == IF key \in DOMAIN d THEN d[key] ELSE default

\* Python truthiness of an optional number: None and 0 are falsy
Truthy(opt) == opt # None /\ opt[1] # 0

\* agile_rates = {point['valid_from']: point['value_inc_vat'] ...}: last entry wins
RECURSIVE AgileLookup(_, _, _)
AgileLookup(agile_data, key, default) ==
    IF agile_data = << >> THEN default
    ELSE LET last == agile_data[Len(agile_data)]
         IN IF last.valid_from = key THEN last.value_inc_vat
            ELSE AgileLookup(SubSeq(agile_data, 1, Len(agile_data) - 1), key, default)

low_start(rd, m) ==
    When(LocalDate(Parse(m.interval_start), rd.unit_rate_zone),
         rd.unit_rate_low_start, rd.unit_rate_zone)

low_end(rd, m) ==
    When(LocalDate(Parse(m.interval_start), rd.unit_rate_zone),
         rd.unit_rate_low_end, rd.unit_rate_zone)

\* the rate category of a reading, or "ValueError" when MayaInterval raises
active_rate_field(s, rd, m) ==
    IF s = "gas" THEN "unit_rate"
    ELSE IF rd.unit_rate_zone = "" THEN "unit_rate_high"
    ELSE IF IntervalRaises(low_start(rd, m), low_end(rd, m)) THEN "ValueError"
    ELSE IF IntervalContains(low_start(rd, m), low_end(rd, m), Parse(m.interval_start))
         THEN "unit_rate_low"
         ELSE "unit_rate_high"

\* the key looked up in agile_rates, as the reading's timestamp verbatim
agile_key_verbatim(m) == m.interval_start

\* maya.parse(measurement['interval_start']).iso8601()
agile_key(m) == Iso8601(Parse(m.interval_start))

converted(rd, m) ==
    LET conversion_factor == Get(rd, "conversion_factor", None)
    IN IF Truthy(conversion_factor)
       THEN m.consumption * conversion_factor[1]
       ELSE m.consumption

\* fields_for_measurement with the standing charge added whole, not per half hour
fields_daily_charge(s, rd, m) ==
    LET consumption == converted(rd, m)
        rate_cost == rd[active_rate_field(s, rd, m)]
        cost == consumption * rate_cost
    IN [consumption |-> consumption,
        cost |-> cost,
        total_cost |-> cost + rd.standing_charge,
        rate |-> rate_cost]

fields_for_measurement(s, rd, m) ==
    LET consumption == converted(rd, m)
        rate == active_rate_field(s, rd, m)
        rate_cost == rd[rate]
        cost == consumption * rate_cost
        standing_charge == rd.standing_charge \div SlotsPerDay
        fields == [consumption |-> consumption,
                   cost |-> cost,
                   total_cost |-> cost + standing_charge,
                   rate |-> rate_cost]
        agile_data == Get(rd, "agile_unit_rates", << >>)
    IN IF agile_data # << >>
       THEN LET agile_standing_charge == rd.agile_standing_charge \div SlotsPerDay
                agile_unit_rate == AgileLookup(agile_data, agile_key(m), rd[rate])
                agile_cost == agile_unit_rate * consumption
            IN [agile_rate |-> agile_unit_rate,
                agile_cost |-> agile_cost,
                agile_total_cost |-> agile_cost + agile_standing_charge] @@ fields
       ELSE fields

tags_for_measurement(s, rd, m, account_name) ==
    [active_rate |-> active_rate_field(s, rd, m),
     time_of_day |-> UtcClock(Parse(m.interval_start)),
     account_name |-> account_name]

point_for(s, rd, m, account_name) ==
    [measurement |-> s,
     tags |-> tags_for_measurement(s, rd, m, account_name),
     time |-> m.interval_start,
     fields |-> fields_for_measurement(s, rd, m)]

\* the exception the list comprehension raises, "" when it builds every point
measurements_raise(s, rd, ms) ==
    IF \E i \in 1..Len(ms) : active_rate_field(s, rd, ms[i]) = "ValueError"
    THEN "ValueError" ELSE ""

measurements_of(s, rd, ms, account_name) ==
    [i \in 1..Len(ms) |-> point_for(s, rd, ms[i], account_name)]

\* store_series(connection, series, account_name, metrics, rate_data)
store_series ==
    /\ outcome = "idle"
    /\ LET raised == measurements_raise(series, rate_data, metrics)
       IN IF raised # ""
          THEN /\ outcome' = raised
               /\ UNCHANGED written
          ELSE /\ written' = <<measurements_of(series, rate_data, metrics, AccountName)>>
               /\ \E sink_ok \in BOOLEAN :
                    outcome' = IF sink_ok THEN "written" ELSE "InfluxDBClientError"
    /\ UNCHANGED <<series, rate_data, metrics>>
    /\ UNCHANGED <<pages_vars, cmd_vars>>

AgileEntry(at, v) == [valid_from |-> Iso8601(at), value_inc_vat |-> v]
AgileTables ==
    { << >>,
      <<AgileEntry(SlotsPerDay, 7)>>,
      <<AgileEntry(SlotsPerDay, 7), AgileEntry(SlotsPerDay + 1, 9)>>,
      <<AgileEntry(SlotsPerDay + 1, 7), AgileEntry(SlotsPerDay + 1, 9)>>,
      <<[valid_from |-> [utc |-> SlotsPerDay, off |-> 2], value_inc_vat |-> 7]>> }

ElectricityCatalogs ==
    [standing_charge : StandingCharges,
     unit_rate_high : {20},
     unit_rate_low : {10},
     unit_rate_low_start : ClockTimes,
     unit_rate_low_end : ClockTimes,
     unit_rate_zone : Zones,
     agile_standing_charge : {96},
     agile_unit_rates : AgileTables]

GasCatalogs ==
    [standing_charge : StandingCharges,
     unit_rate : {5},
     conversion_factor : {None, Some(0), Some(2)}]

PagesIdle ==
    /\ srv = << >> /\ page = 0 /\ frames = << >> /\ requests = << >>
    /\ returned = << >> /\ rpc = "idle"

CmdIdle ==
    /\ config = << >> /\ pc = "idle" /\ catalog = << >> /\ fetch = << >>
    /\ e_consumption = << >> /\ g_consumption = << >> /\ log = << >>

SeriesIdle ==
    /\ series = "" /\ rate_data = << >> /\ metrics = << >>
    /\ outcome = "none" /\ written = << >>

PageItems == {"r1", "r2"}
PageResults == SeqsUpTo(PageItems, 1)

InitPages ==
    /\ \E n \in 1..MaxPages :
          srv \in [1..n -> [status : {200, 500}, results : PageResults, next : 0..n]]
    /\ page = 0
    /\ frames = << >>
    /\ requests = << >>
    /\ returned = << >>
    /\ rpc = "call"
    /\ SeriesIdle
    /\ CmdIdle

NextPages == retrieve_paginated_data

SpecPages == InitPages /\ [][NextPages]_vars

InitSeries ==
    /\ \/ series = "electricity" /\ rate_data \in ElectricityCatalogs
       \/ series = "gas" /\ rate_data \in GasCatalogs
    /\ metrics \in SeqsUpTo(Readings, MaxReadings)
    /\ outcome = "idle"
    /\ written = << >>
    /\ PagesIdle
    /\ CmdIdle

NextSeries == store_series

SpecSeries == InitSeries /\ [][NextSeries]_vars

---------------------------------------------------------------------------
(* cmd *)

\* the statement cmd executes after the one at `at`, gas retrieved and stored
\* before electricity
GasFirstOrder(at, cfg) ==
    CASE at = "read_api_key" -> "electricity_ids"
      [] at = "electricity_ids" -> "e_standing_charge"
      [] at = "e_standing_charge" -> "gas_ids"
      [] at = "gas_ids" -> IF cfg.g_ignore THEN "rate_data" ELSE "g_standing_charge"
      [] at = "g_standing_charge" -> "g_unit_cost"
      [] at = "g_unit_cost" -> "rate_data"
      [] at = "rate_data" -> IF cfg.g_ignore THEN "e_consumption" ELSE "g_consumption"
      [] at = "g_consumption" -> "store_gas"
      [] at = "store_gas" -> "e_consumption"
      [] at = "e_consumption" -> "agile_rates"
      [] at = "agile_rates" -> "store_electricity"
      [] at = "store_electricity" -> "done"

\* the statement cmd executes after the one at `at` completes without raising
ProgramOrder(at, cfg) ==
    CASE at = "read_api_key" -> "electricity_ids"
      [] at = "electricity_ids" -> "e_standing_charge"
      [] at = "e_standing_charge" -> "gas_ids"
      [] at = "gas_ids" -> IF cfg.g_ignore THEN "rate_data" ELSE "g_standing_charge"
      [] at = "g_standing_charge" -> "g_unit_cost"
      [] at = "g_unit_cost" -> "rate_data"
      [] at = "rate_data" -> "e_consumption"
      [] at = "e_consumption" -> "agile_rates"
      [] at = "agile_rates" -> "store_electricity"
      [] at = "store_electricity" -> IF cfg.g_ignore THEN "done" ELSE "g_consumption"
      [] at = "g_consumption" -> "store_gas"
      [] at = "store_gas" -> "done"

Request(what, param, status) ==
    [kind |-> "request", what |-> what, page |-> param, status |-> status]
Exit(exception) == [kind |-> "exit", what |-> exception]

\* an exception propagates out of cmd: the run ends
Abort(exception, events) ==
    /\ pc' = "failed"
    /\ log' = log \o events \o <<Exit(exception)>>
    /\ UNCHANGED <<config, catalog, fetch, e_consumption, g_consumption>>

\* api_key = config.get('octopus', 'api_key'); if not api_key: raise
ReadApiKey ==
    /\ pc = "read_api_key"
    /\ IF config.api_key = None THEN Abort("NoOptionError", << >>)
       ELSE IF config.api_key = Some("") THEN Abort("No Octopus API key set", << >>)
       ELSE /\ pc' = ProgramOrder(pc, config)
            /\ UNCHANGED <<config, catalog, fetch, e_consumption, g_consumption, log>>
    /\ UNCHANGED <<series_vars, pages_vars>>

\* if not e_mpan or not e_serial: raise
CheckElectricityIds ==
    /\ pc = "electricity_ids"
    /\ IF config.e_mpan = "" \/ config.e_serial = ""
       THEN Abort("No electricity meter identifiers", << >>)
       ELSE /\ pc' = ProgramOrder(pc, config)
            /\ UNCHANGED <<config, catalog, fetch, e_consumption, g_consumption, log>>
    /\ UNCHANGED <<series_vars, pages_vars>>

\* get_latest_value_inc_vat for the electricity standing charge, the gas
\* standing charge and the gas unit rate
get_latest_value_inc_vat ==
    /\ pc \in {"e_standing_charge", "g_standing_charge", "g_unit_cost"}
    /\ \E status \in {200, 500}, results \in {<< >>, <<[value_inc_vat |-> 48]>>} :
          LET sent == <<Request(pc, 0, status)>>
          IN IF status # 200 THEN Abort("HTTPError", sent)
             ELSE IF results = << >> THEN Abort("IndexError", sent)
             ELSE /\ catalog' = [catalog EXCEPT ![pc] = Some(results[1].value_inc_vat)]
                  /\ log' = log \o sent
                  /\ pc' = ProgramOrder(pc, config)
                  /\ UNCHANGED <<config, fetch, e_consumption, g_consumption>>
    /\ UNCHANGED <<series_vars, pages_vars>>

\* if (not g_mprn or not g_serial) and not g_ignore: raise
CheckGasIds ==
    /\ pc = "gas_ids"
    /\ IF (config.g_mprn = "" \/ config.g_serial = "") /\ ~config.g_ignore
       THEN Abort("No gas meter identifiers", << >>)
       ELSE /\ pc' = ProgramOrder(pc, config)
            /\ UNCHANGED <<config, catalog, fetch, e_consumption, g_consumption, log>>
    /\ UNCHANGED <<series_vars, pages_vars>>

\* config.getfloat(section, option, fallback=fetched)
GetFloat(option, fetched) == IF option # None THEN option[1] ELSE fetched[1]

ElectricityRates(cfg, cat) ==
    [standing_charge |-> GetFloat(cfg.e_standing_charge, cat.e_standing_charge),
     unit_rate_high |-> 20,
     unit_rate_low |-> 10,
     unit_rate_low_start |-> cfg.unit_rate_low_start,
     unit_rate_low_end |-> cfg.unit_rate_low_end,
     unit_rate_zone |-> cfg.unit_rate_time_zone,
     agile_standing_charge |-> GetFloat(None, cat.e_standing_charge),
     agile_unit_rates |-> << >>]

\* (float(g_vcf) * float(g_cv)) / 3.6 if int(g_meter_type) > 1 else None
ConversionFactor(cfg) ==
    IF cfg.g_meter_type > 1 THEN Some((cfg.g_vcf * cfg.g_cv * 10) \div 36) ELSE None

GasRates(cfg, cat) ==
    [standing_charge |-> GetFloat(None, cat.g_standing_charge),
     unit_rate |-> GetFloat(None, cat.g_unit_cost),
     conversion_factor |-> ConversionFactor(cfg)]

\* rate_data = {'electricity': {...}}; if not g_ignore: rate_data.update({'gas': ...})
BuildRateData ==
    /\ pc = "rate_data"
    /\ catalog' = [catalog EXCEPT !.rate_data =
          IF config.g_ignore
          THEN [electricity |-> ElectricityRates(config, catalog)]
          ELSE [electricity |-> ElectricityRates(config, catalog),
                gas |-> GasRates(config, catalog)]]
    /\ fetch' = [stack |-> << >>, page |-> 0, count |-> 0]
    /\ pc' = ProgramOrder(pc, config)
    /\ UNCHANGED <<config, e_consumption, g_consumption, log>>
    /\ UNCHANGED <<series_vars, pages_vars>>

CmdReading == [interval_start |-> [utc |-> SlotsPerDay, off |-> 0], consumption |-> 10]
ResultsOf(what) ==
    IF what = "agile_rates"
    THEN {<< >>, <<AgileEntry(SlotsPerDay, 7)>>}
    ELSE {<< >>, <<CmdReading>>}

\* one call of retrieve_paginated_data made by cmd, recursive calls included,
\* and the assignment of the value the outermost call returns
RetrievePage ==
    /\ pc \in {"e_consumption", "agile_rates", "g_consumption"}
    /\ \E status \in {200, 500}, results \in ResultsOf(pc),
          next \in {0} \cup {n \in {fetch.count + 2} : n <= MaxPages} :
          LET sent == <<Request(pc, fetch.page, status)>>
              step == PageStep(fetch.stack,
                               [status |-> status, results |-> results, next |-> next])
          IN CASE step.kind = "raise" -> Abort(step.exception, sent)
               [] step.kind = "recurse" ->
                    /\ fetch' = [stack |-> step.stack, page |-> step.page,
                                 count |-> fetch.count + 1]
                    /\ log' = log \o sent
                    /\ UNCHANGED <<config, pc, catalog, e_consumption, g_consumption>>
               [] step.kind = "return" ->
                    /\ fetch' = [stack |-> << >>, page |-> 0, count |-> 0]
                    /\ log' = log \o sent
                    /\ pc' = ProgramOrder(pc, config)
                    /\ e_consumption' =
                          IF pc = "e_consumption" THEN step.value ELSE e_consumption
                    /\ g_consumption' =
                          IF pc = "g_consumption" THEN step.value ELSE g_consumption
                    /\ catalog' =
                          IF pc = "agile_rates"
                          THEN [catalog EXCEPT
                                  !.rate_data.electricity.agile_unit_rates = step.value]
                          ELSE catalog
                    /\ UNCHANGED config
    /\ UNCHANGED <<series_vars, pages_vars>>

\* connection.write_points(measurements): one batch write, one event per point
WritePerPoint(s, batch) ==
    [i \in 1..Len(batch) |-> [kind |-> "write", what |-> s, points |-> <<batch[i]>>]]

\* connection.write_points(measurements): one batch write
WritePoints(s, batch) == <<[kind |-> "write", what |-> s, points |-> batch]>>

\* store_series(influx, 'electricity', ...) and store_series(influx, 'gas', ...)
StoreSeries ==
    /\ pc \in {"store_electricity", "store_gas"}
    /\ LET s == IF pc = "store_electricity" THEN "electricity" ELSE "gas"
           ms == IF pc = "store_electricity" THEN e_consumption ELSE g_consumption
           rd == catalog.rate_data[s]
           raised == measurements_raise(s, rd, ms)
           sent == WritePoints(s, measurements_of(s, rd, ms, config.account_name))
       IN IF raised # "" THEN Abort(raised, << >>)
          ELSE \E sink_ok \in BOOLEAN :
                 IF ~sink_ok THEN Abort("InfluxDBClientError", sent)
                 ELSE /\ log' = log \o sent
                      /\ pc' = ProgramOrder(pc, config)
                      /\ UNCHANGED <<config, catalog, fetch, e_consumption, g_consumption>>
    /\ UNCHANGED <<series_vars, pages_vars>>

Configs ==
    [api_key : {None, Some(""), Some("key")},
     account_name : {"home"},
     unit_rate_time_zone : {"UTC", "Etc/GMT-1"},
     e_mpan : {"", "mpan"},
     e_serial : {"", "serial"},
     e_standing_charge : {None, Some(96)},
     unit_rate_low_start : {0, 1},
     unit_rate_low_end : {0, 1},
     g_ignore : BOOLEAN,
     g_mprn : {"", "mprn"},
     g_serial : {"", "serial"},
     g_meter_type : {1, 2},
     g_vcf : {0, 1},
     g_cv : {36}]

Init ==
    /\ config \in Configs
    /\ pc = "read_api_key"
    /\ catalog = [e_standing_charge |-> None, g_standing_charge |-> None,
                  g_unit_cost |-> None, rate_data |-> << >>]
    /\ fetch = << >>
    /\ e_consumption = << >>
    /\ g_consumption = << >>
    /\ log = << >>
    /\ SeriesIdle
    /\ PagesIdle

Next ==
    \/ ReadApiKey
    \/ CheckElectricityIds
    \/ get_latest_value_inc_vat
    \/ CheckGasIds
    \/ BuildRateData
    \/ RetrievePage
    \/ StoreSeries

Spec == Init /\ [][Next]_vars

---------------------------------------------------------------------------
(* Properties of cmd, checked under Spec *)

ConfigErrors == {"NoOptionError", "No Octopus API key set",
                 "No electricity meter identifiers", "No gas meter identifiers"}
ElectricityRequests == {"e_standing_charge", "e_consumption", "agile_rates"}
GasLookups == {"g_standing_charge", "g_unit_cost"}
IsRequest(e) == e.kind = "request"
IsWrite(e, s) == e.kind = "write" /\ e.what = s
Writes(s) == {i \in 1..Len(log) : IsWrite(log[i], s)}
SeriesOf(what) == IF what = "g_consumption" THEN "gas" ELSE "electricity"
FailedFetch(e) ==
    /\ IsRequest(e)
    /\ e.what \in {"e_consumption", "agile_rates", "g_consumption"}
    /\ e.status # 200

\* C5: a fatal configuration error ends the run before any network request:
\* no run has a request followed by a configuration-error exit.
C5_ConfigErrorBeforeNetwork ==
    \A i, j \in 1..Len(log) :
        ~(i < j /\ IsRequest(log[i])
                /\ log[j].kind = "exit" /\ log[j].what \in ConfigErrors)

\* C6: once a request of a series' fetch returns a non-2xx status, no batch
\* is written for that series, the request is not repeated and nothing but
\* the exit follows; a gas failure leaves the electricity write the only one.
C6_FetchFailureAborts ==
    \A i \in 1..Len(log) :
        FailedFetch(log[i]) =>
            /\ pc = "failed"
            /\ Len(log) = i + 1
            /\ log[i + 1] = Exit("HTTPError")
            /\ Writes(SeriesOf(log[i].what)) = {}
            /\ log[i].what = "g_consumption" =>
                  /\ Cardinality(Writes("electricity")) = 1
                  /\ \A k \in 1..Len(log) :
                        log[k].kind = "write" => log[k].what = "electricity"

C6_Witness ==
    /\ pc = "failed"
    /\ \E i \in 1..Len(log) : FailedFetch(log[i]) /\ log[i].what = "g_consumption"
                               /\ log[i].page # 0
    /\ Cardinality(Writes("electricity")) = 1

\* C7: the sink receives at most one batch write per series, and a run that
\* completes receives exactly one for electricity and one for gas (none when
\* gas is ignored), also for a series without readings.
C7_OneBatchPerSeries ==
    /\ Cardinality(Writes("electricity")) <= 1
    /\ Cardinality(Writes("gas")) <= 1
    /\ pc = "done" =>
          /\ Cardinality(Writes("electricity")) = 1
          /\ Cardinality(Writes("gas")) = IF config.g_ignore THEN 0 ELSE 1
          /\ \A i \in Writes("electricity") : Len(log[i].points) = Len(e_consumption)
          /\ \A i \in Writes("gas") : Len(log[i].points) = Len(g_consumption)

C7_Witness ==
    /\ pc = "done" /\ ~config.g_ignore
    /\ e_consumption = << >> /\ Len(g_consumption) > 1
    /\ \E i \in Writes("electricity") : log[i].points = << >>
    /\ \E i \in Writes("gas") : Len(log[i].points) > 1

\* C8 as stated: every electricity request and the electricity write come
\* before any request made for gas, the gas standing-charge and unit-rate
\* lookups included.
C8_ElectricityBeforeAnyGasRequest ==
    \A i, j \in 1..Len(log) :
        (i < j /\ IsRequest(log[i]) /\ log[i].what \in GasLookups \cup {"g_consumption"})
            => ~( \/ IsRequest(log[j]) /\ log[j].what \in ElectricityRequests
                  \/ IsWrite(log[j], "electricity") )

\* C8 amended: every electricity request and the electricity write come
\* before any gas consumption request and the gas write; the gas
\* standing-charge and unit-rate lookups come after the electricity
\* standing-charge lookup and before the electricity consumption requests.
C8_ElectricityBeforeGasSeries ==
    \A i, j \in 1..Len(log) :
        i < j =>
            /\ (log[i].what = "g_consumption" \/ IsWrite(log[i], "gas"))
                  => ~( \/ IsRequest(log[j]) /\ log[j].what \in ElectricityRequests
                        \/ IsWrite(log[j], "electricity") )
            /\ (IsRequest(log[i]) /\ log[i].what \in GasLookups)
                  => ~(IsRequest(log[j]) /\ log[j].what = "e_standing_charge")
            /\ (IsRequest(log[j]) /\ log[j].what \in GasLookups)
                  => ~( \/ IsRequest(log[i]) /\ log[i].what \in {"e_consumption", "agile_rates"}
                        \/ log[i].kind = "write" )

C8_Witness ==
    /\ pc = "done" /\ ~config.g_ignore
    /\ \E i, j, k, l \in 1..Len(log) :
          /\ i < j /\ j < k /\ k < l
          /\ log[i].what = "g_unit_cost"
          /\ log[j].what = "agile_rates"
          /\ IsWrite(log[k], "electricity")
          /\ log[l].what = "g_consumption"

---------------------------------------------------------------------------
(* Properties of store_series, checked under SpecSeries *)

Handed == written # << >>
Points == IF Handed THEN written[1] ELSE << >>
Processed == outcome \notin {"idle", "none"}
ZonedElectricity == series = "electricity" /\ rate_data.unit_rate_zone # ""

\* clock time of an instant in a zone, and membership in the same-day low window
LocalClock(at, zone) == (at + ZoneOffset(zone)) % SlotsPerDay
InLowWindow(rd, at) ==
    /\ rd.unit_rate_low_start <= LocalClock(at, rd.unit_rate_zone)
    /\ LocalClock(at, rd.unit_rate_zone) < rd.unit_rate_low_end

\* C1: every electricity reading processed with a configured zone resolves to
\* unit_rate_low exactly when its instant lies in [low_start, low_end) of its
\* own local day, and to unit_rate_high otherwise.
C1_HalfOpenWindow ==
    (Processed /\ ZonedElectricity) =>
        \A i \in 1..Len(metrics) :
            /\ Handed
            /\ Points[i].tags.active_rate =
                   IF InLowWindow(rate_data, metrics[i].interval_start.utc)
                   THEN "unit_rate_low" ELSE "unit_rate_high"

\* C2: every emitted point has rate = catalog[category], cost = consumption * rate
\* and total_cost = cost + standing_charge / 48; the gas reading of 10 units at
\* rate 5 with standing charge 48 yields consumption 10, cost 50, total 51, rate 5.
C2_CostFields ==
    \A i \in 1..Len(Points) :
        LET f == Points[i].fields
        IN /\ f.rate = rate_data[Points[i].tags.active_rate]
           /\ f.cost = f.consumption * f.rate
           /\ SlotsPerDay * f.total_cost = SlotsPerDay * f.cost + rate_data.standing_charge
           /\ ( /\ series = "gas"
                /\ metrics[i].consumption = 10
                /\ rate_data.unit_rate = 5
                /\ rate_data.standing_charge = 48
                /\ rate_data.conversion_factor = None )
              => f = [consumption |-> 10, cost |-> 50, total_cost |-> 51, rate |-> 5]

C2_Witness ==
    /\ outcome = "written" /\ series = "gas" /\ Len(Points) = 1
    /\ rate_data.standing_charge = 48 /\ rate_data.conversion_factor = None
    /\ Points[1].fields = [consumption |-> 10, cost |-> 50, total_cost |-> 51, rate |-> 5]

\* C3: the emitted consumption is raw consumption times conversion_factor for
\* every non-null factor, 0 included, and the raw consumption when it is null
\* or absent.
C3_ConversionIffSet ==
    \A i \in 1..Len(Points) :
        LET conversion_factor == Get(rate_data, "conversion_factor", None)
        IN Points[i].fields.consumption =
              IF conversion_factor # None
              THEN metrics[i].consumption * conversion_factor[1]
              ELSE metrics[i].consumption

\* C4: with a non-empty agile table no reading raises for a missing entry:
\* agile_rate is the table's value for the reading's UTC key when present and
\* the point's rate field when absent, agile_cost = agile_rate * consumption
\* and agile_total_cost = agile_cost + agile_standing_charge / 48.
C4_AgileFallback ==
    LET table == Get(rate_data, "agile_unit_rates", << >>)
    IN (Processed /\ table # << >>) =>
          /\ outcome \in {"written", "InfluxDBClientError", "ValueError"}
          /\ outcome = "ValueError" => ~Handed
          /\ outcome # "ValueError" => Len(Points) = Len(metrics)
          /\ \A i \in 1..Len(Points) :
                LET f == Points[i].fields
                    key == [utc |-> metrics[i].interval_start.utc, off |-> 0]
                    hits == {j \in 1..Len(table) : table[j].valid_from = key}
                IN /\ DOMAIN f = {"consumption", "cost", "total_cost", "rate",
                                  "agile_rate", "agile_cost", "agile_total_cost"}
                   /\ hits # {} =>
                        f.agile_rate =
                          table[CHOOSE j \in hits : \A k \in hits : k <= j].value_inc_vat
                   /\ hits = {} => f.agile_rate = f.rate
                   /\ f.agile_cost = f.agile_rate * f.consumption
                   /\ SlotsPerDay * f.agile_total_cost =
                        SlotsPerDay * f.agile_cost + rate_data.agile_standing_charge

C4_Witness ==
    LET table == Get(rate_data, "agile_unit_rates", << >>)
    IN /\ outcome = "written" /\ table # << >> /\ Len(Points) = 1
       /\ \A j \in 1..Len(table) :
             table[j].valid_from # [utc |-> metrics[1].interval_start.utc, off |-> 0]
       /\ metrics[1].interval_start.off # 0
       /\ Points[1].fields.agile_rate = Points[1].fields.rate

\* C10: every point's time_of_day is the clock time of interval_start in the
\* zone of the low-rate window, so a point tagged unit_rate_low has a
\* time_of_day inside [unit_rate_low_start, unit_rate_low_end).
C10_LocalTimeOfDay ==
    (Processed /\ ZonedElectricity) =>
        \A i \in 1..Len(Points) :
            LET tags == Points[i].tags
            IN /\ tags.time_of_day =
                    LocalClock(metrics[i].interval_start.utc, rate_data.unit_rate_zone)
               /\ tags.active_rate = "unit_rate_low" =>
                    /\ rate_data.unit_rate_low_start <= tags.time_of_day
                    /\ tags.time_of_day < rate_data.unit_rate_low_end

---------------------------------------------------------------------------
(* Properties of retrieve_paginated_data, checked under SpecPages *)

\* the provider holds a chain: every page answers, names the following page,
\* and the last page's next is null
Chain ==
    \A i \in DOMAIN srv :
        /\ srv[i].status = 200
        /\ srv[i].next = IF i = Len(srv) THEN 0 ELSE i + 1

RECURSIVE InPageOrder(_)
InPageOrder(n) == IF n = 0 THEN << >> ELSE InPageOrder(n - 1) \o srv[n].results

\* C9: on a chain of N pages the call returns after exactly N requests, one
\* per page and none repeated, with every page's results once, page 1's
\* first, then page 2's, ..., then page N's.
C9_ChainInRequestOrder ==
    (rpc # "idle" /\ Chain) =>
        /\ rpc \in {"call", "returned"}
        /\ Len(requests) <= Len(srv)
        /\ \A k \in 1..Len(requests) : Served(requests[k]) = k
        /\ (Len(requests) = Len(srv)) <=> (rpc = "returned")
        /\ rpc = "returned" => returned = InPageOrder(Len(srv))

====
